---- MODULE Spec2Model ----
(***************************************************************************)
(* Blum auto-clicker: coordinate file -> region, timer-driven polling loop *)
(* (keyboard poll, run/pause flag, screen capture), colour detection       *)
(* (contours of the pink / green / bomb masks, hazard veto, green band     *)
(* rule, pink-first selection) and the mouse click sink.                   *)
(*                                                                         *)
(* A mask is represented by what cv2.findContours + cv2.boundingRect give  *)
(* for it: the sequence of bounding boxes <<x, y, w, h>> of its external   *)
(* contours, in discovery order.  A frame is the triple of the contours of *)
(* its three thresholded and denoised masks.                               *)
(***************************************************************************)
EXTENDS Integers, Sequences, FiniteSets, TLC

VARIABLES
    pc,               \* "start" | "loop" | "exited" | "crashed"
    file,             \* window_coordinates.txt: [exists, start_x, end_x, start_y, end_y]
    coordinates,      \* main(): (start_x, start_y, width, height)
    running,          \* handle_detection closure variable
    was_running,      \* handle_detection closure variable
    was_paused,       \* handle_detection closure variable
    keys,             \* keys held during the last timer tick: [s, p, ctrl_c]
    captured,         \* last tick: "none" (not attempted) | "ok" | "failed"
    frame,            \* last captured frame: [pink, green, bomb] contour boxes
    masks,            \* Detection.mask_pink, mask_green, mask_bomb: [pink, green, bomb]
    detection,        \* detect_colors: [pink_positions, green_positions, click_positions]
    mouse,            \* mouse events issued during the last tick
    started,          \* history: 's' has been seen pressed at some tick
    memo,             \* history: one earlier cycle's frame and result
    px_stage,         \* pixel view of set_masks: "idle" | "image" | "masks"
    px_frame,         \* pixel view: the BGR frame [w, h, px]
    px_thresholded,   \* pixel view: the three cv2.inRange masks (sets of pixels)
    px_masks          \* pixel view: the three masks after modify_masks

pxvars == << px_stage, px_frame, px_thresholded, px_masks >>

vars == << pc, file, coordinates, running, was_running, was_paused, keys,
           captured, frame, masks, detection, mouse, started, memo,
           px_stage, px_frame, px_thresholded, px_masks >>

-----------------------------------------------------------------------------
(* Bounds and input sets *)

\* most blobs (contours over the three masks together) in one captured frame
MaxBlobs == 2

\* most blobs in one frame of the repeated-frame specification SpecIdem
MaxIdemBlobs == 2

\* largest number of pixels (width * height) of a frame of the pixel view
MaxPixels == 9

\* largest height of the green blob of the band specification
MaxBandBoxHeight == 2

Digits == {"0", "1", "2", "3", "4", "5", "6", "7", "8", "9"}

\* characters for which str.isdigit() is true but int() raises ValueError
SuperscriptDigits == {"^2"}

\* texts the four keys of window_coordinates.txt may hold (all four present)
StartXTexts == { <<"7">>, <<"-", "7">> }
EndXTexts   == { <<"2", "0", "7">>, <<"7">>, <<"3">>, <<"^2">> }
StartYTexts == { <<"0">>, <<"6", "0">>, <<>> }
EndYTexts   == { <<"1", "6", "0">>, <<"2", "0">> }

\* bounding boxes <<x, y, w, h>> (mask-local) a contour may have
Boxes == { <<40, 0, 21, 11>>,     \* centre (50, 5)
           <<5, 45, 21, 11>>,     \* centre (15, 50)
           <<100, 80, 20, 10>> }  \* centre (110, 85)

-----------------------------------------------------------------------------
(* Coordinate file: coordinate_controller.py *)

\* str.isdigit(): non-empty and every character is a digit
isdigit(s) == Len(s) > 0 /\ \A i \in 1..Len(s) : s[i] \in Digits \cup SuperscriptDigits

\* int() accepts only the decimal digits among them
IntParses(s) == \A i \in 1..Len(s) : s[i] \in Digits

DigitVal(c) == CHOOSE n \in 0..9 : c = <<"0", "1", "2", "3", "4", "5", "6", "7", "8", "9">>[n + 1]

RECURSIVE int(_)
int(s) == IF Len(s) = 0 THEN 0
          ELSE 10 * int(SubSeq(s, 1, Len(s) - 1)) + DigitVal(s[Len(s)])

check_directory(f) == f.exists

check_coordinates(f) ==
    ~ (~ isdigit(f.start_x) \/ ~ isdigit(f.end_x)
         \/ ~ isdigit(f.start_y) \/ ~ isdigit(f.end_y))

\* Coordinate.get_coordinates: [kind |-> "none" | "raise" | "tuple", value]
NoCoordinates == [start_x |-> 0, start_y |-> 0, width |-> 0, height |-> 0]

Coordinate_get_coordinates(f) ==
    IF check_directory(f) = FALSE
    THEN [kind |-> "none", value |-> NoCoordinates]
    ELSE IF check_coordinates(f) = FALSE
    THEN [kind |-> "none", value |-> NoCoordinates]
    ELSE IF ~ (IntParses(f.start_x) /\ IntParses(f.end_x)
               /\ IntParses(f.start_y) /\ IntParses(f.end_y))
    THEN [kind |-> "raise", value |-> NoCoordinates]
    ELSE [kind |-> "tuple",
          value |-> [start_x |-> int(f.start_x),
                     start_y |-> int(f.start_y),
                     width   |-> int(f.end_x) - int(f.start_x),
                     height  |-> int(f.end_y) - int(f.start_y)]]

-----------------------------------------------------------------------------
(* Detection: color_detector.py *)

BombRadius == 100
ClickBiasY == 3

center_x(b) == b[1] + b[3] \div 2
center_y(b) == b[2] + b[4] \div 2

\* is_bomb_near with the comparison written <= (changed behaviour)
is_bomb_near_inclusive(bombs, b) ==
    \E i \in 1..Len(bombs) :
        LET dx == center_x(bombs[i]) - center_x(b)
            dy == center_y(bombs[i]) - center_y(b)
        IN  dx * dx + dy * dy <= BombRadius * BombRadius

\* np.linalg.norm(bomb_center - object_center) < 100, on integer centres
is_bomb_near(bombs, b) ==
    \E i \in 1..Len(bombs) :
        LET dx == center_x(bombs[i]) - center_x(b)
            dy == center_y(bombs[i]) - center_y(b)
        IN  dx * dx + dy * dy < BombRadius * BombRadius

\* int(self.height * 0.1) for the positive heights a captured frame has
ten_percent_height(height) == height \div 10

top_limit(c) == c.start_y + ten_percent_height(c.height)
bottom_limit(c) == c.start_y + c.height - ten_percent_height(c.height)

\* detect_one without the +3 on screen_y (changed behaviour)
detect_one_unbiased(c, bombs, b, color_name) ==
    IF ~ is_bomb_near(bombs, b)
    THEN IF color_name = "green"
             /\ (center_y(b) < top_limit(c) \/ center_y(b) > bottom_limit(c))
         THEN << >>
         ELSE << << center_x(b) + c.start_x, center_y(b) + c.start_y >> >>
    ELSE << >>

\* detect_one with both band comparisons made non-strict (changed behaviour)
detect_one_exclusive_band(c, bombs, b, color_name) ==
    IF ~ is_bomb_near(bombs, b)
    THEN IF color_name = "green"
             /\ (center_y(b) <= top_limit(c) \/ center_y(b) >= bottom_limit(c))
         THEN << >>
         ELSE << << center_x(b) + c.start_x, center_y(b) + c.start_y + ClickBiasY >> >>
    ELSE << >>

\* the body of the loop of detect_objects for one contour: <<>> or one position
detect_one(c, bombs, b, color_name) ==
    IF ~ is_bomb_near(bombs, b)
    THEN IF color_name = "green"
             /\ (center_y(b) < top_limit(c) \/ center_y(b) > bottom_limit(c))
         THEN << >>
         ELSE << << center_x(b) + c.start_x, center_y(b) + c.start_y + ClickBiasY >> >>
    ELSE << >>

RECURSIVE detect_objects(_, _, _, _)
detect_objects(c, bombs, mask, color_name) ==
    IF Len(mask) = 0 THEN << >>
    ELSE detect_one(c, bombs, Head(mask), color_name)
         \o detect_objects(c, bombs, Tail(mask), color_name)

\* set_masks that keeps the old bomb mask when the new one is empty (changed behaviour)
set_masks_stale(old, f) ==
    [pink |-> f.pink, green |-> f.green,
     bomb |-> IF Len(f.bomb) = 0 THEN old.bomb ELSE f.bomb]

\* set_masks: the three masks of the frame replace the object's masks
set_masks(old, f) == [pink |-> f.pink, green |-> f.green, bomb |-> f.bomb]

\* detect_colors returning every pink position instead of the first (changed behaviour)
detect_colors_all_pink(c, m) ==
    LET pinks == detect_objects(c, m.bomb, m.pink, "pink")
        greens == detect_objects(c, m.bomb, m.green, "green")
    IN  IF Len(pinks) > 0
        THEN [pink_positions |-> pinks, green_positions |-> << >>,
              click_positions |-> [shape |-> "list", items |-> pinks]]
        ELSE [pink_positions |-> pinks, green_positions |-> greens,
              click_positions |-> [shape |-> "list", items |-> greens]]

\* detect_colors on the masks m: the locals and the returned click_positions
detect_colors(c, m) ==
    LET pinks == detect_objects(c, m.bomb, m.pink, "pink")
        greens == detect_objects(c, m.bomb, m.green, "green")
    IN  IF Len(pinks) > 0
        THEN [pink_positions |-> pinks, green_positions |-> << >>,
              click_positions |-> [shape |-> "pair", items |-> << pinks[1] >>]]
        ELSE [pink_positions |-> pinks, green_positions |-> greens,
              click_positions |-> [shape |-> "list", items |-> greens]]

-----------------------------------------------------------------------------
(* Pixel view of set_masks and modify_masks: color_detector.py *)

lower_pink == << 160, 20, 100 >>
upper_pink == << 180, 255, 255 >>
lower_green == << 40, 50, 50 >>
upper_green == << 80, 255, 255 >>
lower_bomb == << 0, 0, 50 >>
upper_bomb == << 180, 50, 200 >>

\* BGR colours a pixel of the pixel view may have
Black == << 0, 0, 0 >>
PaintColours == { << 255, 255, 255 >>,    \* white: HSV (0, 0, 255), no band
                  << 128, 128, 128 >>,    \* grey:  HSV (0, 0, 128), bomb band
                  << 0, 255, 0 >>,        \* green: HSV (60, 255, 255), green band
                  << 85, 0, 255 >> }      \* pink:  HSV (170, 255, 255), pink band

Max3(a, b, c) == IF a >= b /\ a >= c THEN a ELSE IF b >= c THEN b ELSE c
Min3(a, b, c) == IF a <= b /\ a <= c THEN a ELSE IF b <= c THEN b ELSE c

\* n / d rounded to the nearest integer (d > 0)
RoundDiv(n, d) == (2 * n + d) \div (2 * d)

\* cv2.cvtColor(.., COLOR_BGR2HSV) of one 8-bit pixel: H in 0..180, S and V in 0..255
cvtColor_BGR2HSV(bgr) ==
    LET b == bgr[1]
        g == bgr[2]
        r == bgr[3]
        v == Max3(b, g, r)
        d == v - Min3(b, g, r)
        sat == IF v = 0 THEN 0 ELSE RoundDiv(255 * d, v)
        hn == IF d = 0 THEN 0
              ELSE IF v = r THEN g - b
              ELSE IF v = g THEN (b - r) + 2 * d
              ELSE (r - g) + 4 * d
        hue == IF d = 0 THEN 0 ELSE RoundDiv(30 * hn, d)
    IN  << IF hue < 0 THEN hue + 180 ELSE hue, sat, v >>

\* the pixels <<x, y>> of a w x h frame
Grid(w, h) == (0..(w - 1)) \X (0..(h - 1))

\* cv2.inRange: the pixels whose three components lie in the inclusive bounds
inRange(hsv, lower, upper) ==
    { p \in DOMAIN hsv : \A i \in 1..3 : lower[i] <= hsv[p][i] /\ hsv[p][i] <= upper[i] }

\* the 3x3 neighbourhood of p (kernel None: 3x3 rectangle anchored at its centre)
Kernel(p) == ((p[1] - 1)..(p[1] + 1)) \X ((p[2] - 1)..(p[2] + 1))

\* cv2.erode(mask, None, iterations=1): the minimum over the 3x3 neighbourhood;
\* the default border value leaves pixels outside the frame out of the minimum
erode(mask, grid) ==
    { p \in grid : \A q \in Kernel(p) : q \in grid => q \in mask }

\* cv2.dilate(mask, None, iterations=1): the maximum over the 3x3 neighbourhood
dilate(mask, grid) ==
    { p \in grid : \E q \in Kernel(p) : q \in mask }

\* modify_masks that leaves the bomb mask as thresholded (changed behaviour)
modify_masks_skip_bomb(m, grid) ==
    [pink  |-> dilate(erode(m.pink, grid), grid),
     green |-> dilate(erode(m.green, grid), grid),
     bomb  |-> m.bomb]

\* modify_masks dilating before eroding (changed behaviour)
modify_masks_dilate_first(m, grid) ==
    [pink  |-> erode(dilate(m.pink, grid), grid),
     green |-> erode(dilate(m.green, grid), grid),
     bomb  |-> erode(dilate(m.bomb, grid), grid)]

\* modify_masks: each mask is eroded, then the eroded mask is dilated
modify_masks(m, grid) ==
    [pink  |-> dilate(erode(m.pink, grid), grid),
     green |-> dilate(erode(m.green, grid), grid),
     bomb  |-> dilate(erode(m.bomb, grid), grid)]

\* the three cv2.inRange masks of set_masks, before modify_masks
threshold(img) ==
    LET hsv == [p \in Grid(img.w, img.h) |-> cvtColor_BGR2HSV(img.px[p])]
    IN  [pink  |-> inRange(hsv, lower_pink, upper_pink),
         green |-> inRange(hsv, lower_green, upper_green),
         bomb  |-> inRange(hsv, lower_bomb, upper_bomb)]

NoPixelMasks == [pink |-> {}, green |-> {}, bomb |-> {}]
NoImage == [w |-> 0, h |-> 0, px |-> << >>]

\* a w x h frame, black except for the pixels painted in one colour
Image(w, h, painted, colour) ==
    [w |-> w, h |-> h,
     px |-> [p \in Grid(w, h) |-> IF p \in painted THEN colour ELSE Black]]

-----------------------------------------------------------------------------
(* Click sink and polling loop: main_clicker.py *)

RECURSIVE click_each(_)
click_each(positions) ==
    IF Len(positions) = 0 THEN << >>
    ELSE << <<"move", Head(positions)[1], Head(positions)[2]>>, <<"click">> >>
         \o click_each(Tail(positions))

\* handle_click_positions clicking only the first element of a list (changed behaviour)
handle_click_positions_first_only(cp) ==
    IF cp.shape = "pair"
    THEN << <<"move", cp.items[1][1], cp.items[1][2]>>, <<"click">> >>
    ELSE IF cp.shape = "list" /\ Len(cp.items) > 0
    THEN << <<"move", cp.items[1][1], cp.items[1][2]>>, <<"click">> >>
    ELSE << >>

handle_click_positions(cp) ==
    IF cp.shape = "pair"
    THEN << <<"move", cp.items[1][1], cp.items[1][2]>>, <<"click">> >>
    ELSE IF cp.shape = "list" /\ Len(cp.items) > 0
    THEN click_each(cp.items)
    ELSE << >>

\* truth value of click_positions: a pair is a non-empty tuple
Truthy(cp) == cp.shape = "pair" \/ Len(cp.items) > 0

\* check_keyboard_input testing 'p' before 's' (changed behaviour)
check_keyboard_input_p_first(r, k) ==
    IF k.p THEN [exit |-> FALSE, running |-> FALSE]
    ELSE IF k.s THEN [exit |-> FALSE, running |-> TRUE]
    ELSE IF k.ctrl_c THEN [exit |-> TRUE, running |-> r]
    ELSE [exit |-> FALSE, running |-> r]

\* check_keyboard_input without the ctrl+c branch (changed behaviour)
check_keyboard_input_no_exit(r, k) ==
    IF k.s THEN [exit |-> FALSE, running |-> TRUE]
    ELSE IF k.p THEN [exit |-> FALSE, running |-> FALSE]
    ELSE [exit |-> FALSE, running |-> r]

\* check_keyboard_input: [exit, running]
check_keyboard_input(r, k) ==
    IF k.s THEN [exit |-> FALSE, running |-> TRUE]
    ELSE IF k.p THEN [exit |-> FALSE, running |-> FALSE]
    ELSE IF k.ctrl_c THEN [exit |-> TRUE, running |-> r]
    ELSE [exit |-> FALSE, running |-> r]

\* log_state_transition: <<was_running, was_paused>>
log_state_transition(r, wr, wp) ==
    IF r /\ ~ wr THEN << TRUE, FALSE >>
    ELSE IF ~ r /\ ~ wp THEN << FALSE, TRUE >>
    ELSE << wr, wp >>

-----------------------------------------------------------------------------
(* Frames a capture of a region can return *)

FitsIn(b, c) == b[1] + b[3] <= c.width /\ b[2] + b[4] <= c.height

RegionBoxes(c) == { b \in Boxes : FitsIn(b, c) }

\* sequences of distinct boxes, of length at most n
Contours(S, n) ==
    UNION { { q \in [1..k -> S] : \A i, j \in 1..k : i # j => q[i] # q[j] } : k \in 0..n }

Frames(c, n) ==
    { f \in [pink : Contours(RegionBoxes(c), n), green : Contours(RegionBoxes(c), n),
             bomb : Contours(RegionBoxes(c), n)] :
        Len(f.pink) + Len(f.green) + Len(f.bomb) <= n }

Files == [exists : BOOLEAN, start_x : StartXTexts, end_x : EndXTexts,
          start_y : StartYTexts, end_y : EndYTexts]

\* whether a capture of the region can succeed at all: with a width or height
\* <= 0 sct.grab or the cvtColor of the empty array raises on every call
Capturable(c) == c.width > 0 /\ c.height > 0

CapturableRegions ==
    { Coordinate_get_coordinates(f).value :
        f \in { g \in Files : /\ Coordinate_get_coordinates(g).kind = "tuple"
                              /\ Capturable(Coordinate_get_coordinates(g).value) } }

\* the boxes and frames of the repeated-frame specification
IdemBoxes == { <<40, 0, 21, 11>>, <<5, 45, 21, 11>> }

IdemFrames ==
    { f \in [pink : Contours(IdemBoxes, 1), green : Contours(IdemBoxes, 1),
             bomb : Contours(IdemBoxes, 1)] :
        Len(f.pink) + Len(f.green) + Len(f.bomb) <= MaxIdemBlobs }

\* the frames a capture of each capturable region may return
FrameTable == { << c, Frames(c, MaxBlobs) >> : c \in CapturableRegions }

FramesOf(c) == (CHOOSE e \in FrameTable : e[1] = c)[2]

NoFrame == [pink |-> << >>, green |-> << >>, bomb |-> << >>]
NoKeys == [s |-> FALSE, p |-> FALSE, ctrl_c |-> FALSE]
NoResult == [shape |-> "list", items |-> << >>]
NoDetection == [pink_positions |-> << >>, green_positions |-> << >>,
                click_positions |-> NoResult]
NoMemo == [set |-> FALSE, frame |-> NoFrame, out |-> NoResult, other |-> FALSE]
KeyStates == [s : BOOLEAN, p : BOOLEAN, ctrl_c : BOOLEAN]

-----------------------------------------------------------------------------
(* State machine *)

\* the program before main runs, whatever window_coordinates.txt holds
ProgramInit ==
    /\ pc = "start"
    /\ coordinates = NoCoordinates
    /\ running = FALSE
    /\ was_running = FALSE
    /\ was_paused = TRUE
    /\ keys = NoKeys
    /\ captured = "none"
    /\ frame = NoFrame
    /\ masks = NoFrame
    /\ detection = NoDetection
    /\ mouse = << >>
    /\ started = FALSE
    /\ memo = NoMemo

\* the pixel view is not in use
PixelsIdle ==
    /\ px_stage = "idle"
    /\ px_frame = NoImage
    /\ px_thresholded = NoPixelMasks
    /\ px_masks = NoPixelMasks

Init ==
    /\ file \in { f \in Files :
                    ~ f.exists => f = [exists |-> FALSE, start_x |-> <<"7">>,
                                       end_x |-> <<"7">>, start_y |-> << >>,
                                       end_y |-> <<"2", "0">>] }
    /\ ProgramInit
    /\ PixelsIdle

\* main() up to timer.start: get_coordinates (None: sleep and sys.exit; an
\* int() ValueError ends the program), overlay, handle_detection
main ==
    /\ pc = "start"
    /\ LET got == Coordinate_get_coordinates(file)
       IN  /\ pc' = CASE got.kind = "none"  -> "exited"
                      [] got.kind = "raise" -> "crashed"
                      [] OTHER              -> "loop"
           /\ coordinates' = got.value
    /\ UNCHANGED << file, running, was_running, was_paused, keys, captured, frame,
                    masks, detection, mouse, started, memo >>
    /\ UNCHANGED pxvars

\* one timer tick: detection_loop with the keys k held; when it captures, the
\* capture either fails (ok = FALSE) or returns the frame f; rec says whether
\* the history variable memo records this cycle
detection_loop(k, ok, f, rec) ==
    LET res == check_keyboard_input(running, k)
        logged == log_state_transition(res.running, was_running, was_paused)
    IN  /\ pc = "loop"
        /\ keys' = k
        /\ started' = (started \/ k.s)
        /\ UNCHANGED << file, coordinates >>
        /\ UNCHANGED pxvars
        /\ IF res.exit
           THEN \* sys.exit() in check_keyboard_input
                /\ pc' = "exited"
                /\ captured' = "none"
                /\ mouse' = << >>
                /\ UNCHANGED << running, was_running, was_paused, frame, masks,
                                detection, memo >>
           ELSE /\ running' = res.running
                /\ was_running' = logged[1]
                /\ was_paused' = logged[2]
                /\ IF ~ res.running
                   THEN /\ pc' = "loop"
                        /\ captured' = "none"
                        /\ mouse' = << >>
                        /\ UNCHANGED << frame, masks, detection, memo >>
                   ELSE IF ~ ok
                   THEN \* perform_detection: the capture raises and nothing catches
                        \* it; the exception leaves the timer slot and PyQt5 aborts
                        /\ pc' = "crashed"
                        /\ captured' = "failed"
                        /\ mouse' = << >>
                        /\ UNCHANGED << frame, masks, detection, memo >>
                   ELSE \* perform_detection on the captured frame
                        /\ pc' = "loop"
                        /\ captured' = "ok"
                        /\ frame' = f
                        /\ masks' = set_masks(masks, f)
                        /\ detection' = detect_colors(coordinates, masks')
                        /\ mouse' = IF Truthy(detection'.click_positions)
                                    THEN handle_click_positions(detection'.click_positions)
                                    ELSE << >>
                        /\ memo' = IF rec
                                   THEN [set |-> TRUE, frame |-> f,
                                         out |-> detection'.click_positions,
                                         other |-> FALSE]
                                   ELSE IF memo.set /\ f # memo.frame
                                   THEN [memo EXCEPT !.other = TRUE]
                                   ELSE memo

\* the timer fires: the inputs of one detection_loop call; the screen is read
\* only by a tick that gets as far as the capture
Captures(k) == ~ check_keyboard_input(running, k).exit
               /\ check_keyboard_input(running, k).running

Tick ==
    \E k \in KeyStates :
        \/ detection_loop(k, FALSE, NoFrame, FALSE)
        \/ /\ Capturable(coordinates)
           /\ Captures(k)
           /\ \E f \in FramesOf(coordinates) : detection_loop(k, TRUE, f, FALSE)

Next == main \/ Tick

Spec == Init /\ [][Next]_vars

\* Repeated frames: one region, a small set of frames, and the history variable
\* memo recording the frame and result of a cycle chosen at will
IdemFile == [exists |-> TRUE, start_x |-> <<"7">>, end_x |-> <<"2", "0", "7">>,
             start_y |-> <<"0">>, end_y |-> <<"1", "6", "0">>]

InitIdem == Init /\ file = IdemFile

TickIdem ==
    \E k \in KeyStates :
        \/ detection_loop(k, FALSE, NoFrame, FALSE)
        \/ /\ Capturable(coordinates)
           /\ Captures(k)
           /\ \E f \in IdemFrames, rec \in BOOLEAN : detection_loop(k, TRUE, f, rec)

NextIdem == main \/ TickIdem

SpecIdem == InitIdem /\ [][NextIdem]_vars

\* Band specification: regions with origin_y = 0 and a small height, frames
\* with at most one green blob at every vertical position of the region
BandFiles ==
    { [exists |-> TRUE, start_x |-> <<"7">>, end_x |-> <<"2", "0", "7">>,
       start_y |-> <<"0">>, end_y |-> e] :
          e \in { <<"9">>, <<"1", "0">>, <<"2", "0">>, <<"2", "5">> } }

\* the green blobs of a region of height h: one column, every top and height
BandGreenBoxes(h) ==
    { b \in { << 10, y, 1, bh >> : y \in 0..(h - 1), bh \in 1..MaxBandBoxHeight } :
        b[2] + b[4] <= h }

\* a bomb blob within 100 pixels of every green blob, and one farther away
BandBombBoxes == { << 10, 0, 1, 1 >>, << 150, 0, 1, 1 >> }

\* no pink blob, so that detect_colors returns the green detections
BandFrames(c) ==
    [pink : { << >> }, green : Contours(BandGreenBoxes(c.height), 1),
     bomb : Contours(BandBombBoxes, 1)]

InitBand == file \in BandFiles /\ ProgramInit /\ PixelsIdle

TickBand ==
    \E k \in KeyStates :
        \/ detection_loop(k, FALSE, NoFrame, FALSE)
        \/ /\ Capturable(coordinates)
           /\ Captures(k)
           /\ \E f \in BandFrames(coordinates) : detection_loop(k, TRUE, f, FALSE)

NextBand == main \/ TickBand

SpecBand == InitBand /\ [][NextBand]_vars

\* Pixel view: set_masks (with its modify_masks) applied to one small frame
InitMorph ==
    /\ file = IdemFile
    /\ ProgramInit
    /\ px_stage = "image"
    /\ \E w \in 1..MaxPixels, h \in 1..MaxPixels, colour \in PaintColours :
          /\ w * h <= MaxPixels
          /\ \E painted \in SUBSET Grid(w, h) :
                px_frame = Image(w, h, painted, colour)
    /\ px_thresholded = NoPixelMasks
    /\ px_masks = NoPixelMasks

SetMasks ==
    /\ px_stage = "image"
    /\ px_stage' = "masks"
    /\ px_thresholded' = threshold(px_frame)
    /\ px_masks' = modify_masks(px_thresholded', Grid(px_frame.w, px_frame.h))
    /\ UNCHANGED << pc, file, coordinates, running, was_running, was_paused, keys,
                    captured, frame, masks, detection, mouse, started, memo,
                    px_frame >>

NextMorph == SetMasks

SpecMorph == InitMorph /\ [][NextMorph]_vars

-----------------------------------------------------------------------------
(* Vocabulary of the properties, stated on the captured frame *)

Cycle == captured = "ok"

Range(q) == { q[i] : i \in 1..Len(q) }

\* the blob centre translated by the region origin plus (0, 3)
ScreenPoint(b) ==
    << b[1] + b[3] \div 2 + coordinates.start_x,
       b[2] + b[4] \div 2 + coordinates.start_y + 3 >>

\* squared distance between the bounding-box centres of two blobs
Dist2(a, b) ==
    LET dx == (a[1] + a[3] \div 2) - (b[1] + b[3] \div 2)
        dy == (a[2] + a[4] \div 2) - (b[2] + b[4] \div 2)
    IN  dx * dx + dy * dy

\* some hazard blob of the frame is strictly closer than 100 pixels
HazardWithin(b) == \E i \in 1..Len(frame.bomb) : Dist2(frame.bomb[i], b) < 10000

\* the green band test as the code evaluates it: the mask-local centre against
\* limits that include the region's origin_y
BandExcluded(b) ==
    LET cy == b[2] + b[4] \div 2
        t == coordinates.height \div 10
    IN  \/ cy < coordinates.start_y + t
        \/ cy > coordinates.start_y + coordinates.height - t

\* the extractor outputs for the captured frame
PinkExtract == detect_objects(coordinates, frame.bomb, frame.pink, "pink")
GreenExtract == detect_objects(coordinates, frame.bomb, frame.green, "green")

-----------------------------------------------------------------------------
(* C1: Selection Policy.  In every cycle, if the pink extractor's result is   *)
(* non-empty the output of detect_colors is the single pair that is its first *)
(* element; otherwise the output is the whole green extractor sequence, in    *)
(* extractor order, possibly empty.                                           *)
C1_SelectionPolicy ==
    Cycle =>
        IF Len(PinkExtract) > 0
        THEN detection.click_positions = [shape |-> "pair", items |-> << PinkExtract[1] >>]
        ELSE detection.click_positions = [shape |-> "list", items |-> GreenExtract]

\* a cycle in which both extractors find something and the pink pair wins
C1_Witness ==
    /\ Cycle
    /\ Len(PinkExtract) > 0
    /\ Len(GreenExtract) > 0
    /\ detection.click_positions.shape = "pair"
    /\ detection.click_positions.items[1] \notin Range(GreenExtract)

-----------------------------------------------------------------------------
(* C2: Hazard absoluteness.  A vetoed candidate (a hazard centre strictly      *)
(* closer than 100 pixels) never appears in the extractor output, the chosen   *)
(* output or a click of the cycle.                                             *)

VetoedNeverActedOn ==
    \A b \in Range(frame.pink) \cup Range(frame.green) :
        HazardWithin(b) =>
            /\ ScreenPoint(b) \notin Range(detection.pink_positions)
            /\ ScreenPoint(b) \notin Range(detection.green_positions)
            /\ ScreenPoint(b) \notin Range(detection.click_positions.items)
            /\ << "move", ScreenPoint(b)[1], ScreenPoint(b)[2] >> \notin Range(mouse)

\* C2 as stated: for pink and for green alike, a candidate is emitted if and
\* only if no hazard is strictly closer than 100 pixels
C2_Original ==
    Cycle =>
        /\ \A b \in Range(frame.pink) :
               ScreenPoint(b) \in Range(detection.pink_positions) <=> ~ HazardWithin(b)
        /\ Len(detection.pink_positions) = 0 =>
               \A b \in Range(frame.green) :
                   ScreenPoint(b) \in Range(detection.green_positions) <=> ~ HazardWithin(b)
        /\ VetoedNeverActedOn

\* C2 (amended): a pink candidate is emitted if and only if no hazard centre is
\* strictly closer than 100 pixels (a hazard at exactly 100 does not veto); a
\* green candidate is emitted if and only if, in addition, the green band rule
\* does not discard it; a vetoed candidate is in no output and no click.
C2_HazardVeto ==
    Cycle =>
        /\ \A b \in Range(frame.pink) :
               ScreenPoint(b) \in Range(detection.pink_positions) <=> ~ HazardWithin(b)
        /\ Len(detection.pink_positions) = 0 =>
               \A b \in Range(frame.green) :
                   ScreenPoint(b) \in Range(detection.green_positions)
                       <=> (~ HazardWithin(b) /\ ~ BandExcluded(b))
        /\ VetoedNeverActedOn

\* a pink candidate with a hazard at exactly 100 pixels is emitted and clicked
C2_Witness ==
    /\ Cycle
    /\ \E b \in Range(frame.pink) :
          /\ \E h \in Range(frame.bomb) : Dist2(h, b) = 10000
          /\ ScreenPoint(b) \in Range(detection.click_positions.items)
          /\ << "move", ScreenPoint(b)[1], ScreenPoint(b)[2] >> \in Range(mouse)

-----------------------------------------------------------------------------
(* C3: the green band rule is decided on the mask-local vertical centre only:  *)
(* in every region, a hazard-free green candidate whose mask-local centre is   *)
(* in the top or bottom 10% of the region height is discarded and one in the   *)
(* middle band is emitted; a hazard-free pink candidate is always emitted.     *)
C3_GreenBandMaskLocal ==
    Cycle =>
        /\ Len(detection.pink_positions) = 0 =>
               \A b \in Range(frame.green) :
                   LET cy == b[2] + b[4] \div 2
                       h == coordinates.height
                       t == h \div 10
                   IN  ~ HazardWithin(b) =>
                          /\ (cy < t \/ cy > h - t)
                                 => ScreenPoint(b) \notin Range(detection.green_positions)
                          /\ (cy > t /\ cy < h - t)
                                 => ScreenPoint(b) \in Range(detection.green_positions)
        /\ \A b \in Range(frame.pink) :
               ~ HazardWithin(b) => ScreenPoint(b) \in Range(detection.pink_positions)

-----------------------------------------------------------------------------
(* C4: Coordinate translation.  Every detection emitted for a blob with box    *)
(* (x, y, w, h) is (x + w div 2 + origin_x, y + h div 2 + origin_y + 3), for   *)
(* every region origin and both categories; one isolated pink blob with no     *)
(* hazard yields exactly that one detection.                                   *)
C4_Translation ==
    Cycle =>
        /\ LET kept == SelectSeq(frame.pink, LAMBDA b : ~ HazardWithin(b))
           IN  detection.pink_positions = [i \in 1..Len(kept) |-> ScreenPoint(kept[i])]
        /\ \A i \in 1..Len(detection.green_positions) :
               \E b \in Range(frame.green) :
                   detection.green_positions[i] = ScreenPoint(b)
        /\ (Len(frame.pink) = 1 /\ Len(frame.bomb) = 0) =>
               detection.pink_positions = << ScreenPoint(frame.pink[1]) >>

\* one isolated pink blob, odd box size, region origin (7, 60)
C4_Witness ==
    /\ Cycle
    /\ coordinates.start_x # 0
    /\ coordinates.start_y # 0
    /\ Len(frame.pink) = 1
    /\ Len(frame.bomb) = 0
    /\ frame.pink[1][3] % 2 = 1
    /\ detection.click_positions = [shape |-> "pair", items |-> << ScreenPoint(frame.pink[1]) >>]

-----------------------------------------------------------------------------
(* C5: a failed capture does not crash the polling loop: the cycle does no     *)
(* detection and no click, and the loop keeps running for the next tick.       *)
C5_FailedCaptureSkipsCycle ==
    (captured = "failed" /\ Capturable(coordinates)) =>
        /\ pc = "loop"
        /\ mouse = << >>

-----------------------------------------------------------------------------
(* C6: Region validation.  The region of every detection cycle has             *)
(* non-negative origin and width > 0, height > 0; with a missing file, a value *)
(* that is no non-negative integer or a dimension <= 0 the program never       *)
(* reaches the polling loop.                                                   *)
ValidRegion(c) ==
    c.start_x >= 0 /\ c.start_y >= 0 /\ c.width > 0 /\ c.height > 0

ValidFile(f) ==
    /\ f.exists
    /\ \A t \in { f.start_x, f.end_x, f.start_y, f.end_y } :
          Len(t) > 0 /\ \A i \in 1..Len(t) : t[i] \in Digits
    /\ int(f.end_x) - int(f.start_x) > 0
    /\ int(f.end_y) - int(f.start_y) > 0

C6_RegionValidated ==
    /\ captured # "none" => ValidRegion(coordinates)
    /\ ~ ValidFile(file) => (pc # "loop" /\ captured = "none")

-----------------------------------------------------------------------------
(* C7: Click sink.  In every cycle the mouse actions are exactly the chosen    *)
(* output: a pair gives one move-then-click at that pair, a sequence gives one *)
(* move-then-click per element in order, an empty sequence gives none; a tick  *)
(* without a cycle gives none.                                                 *)
C7_ClickSink ==
    LET cp == detection.click_positions
    IN  /\ Cycle =>
              IF cp.shape = "pair"
              THEN mouse = << << "move", cp.items[1][1], cp.items[1][2] >>, << "click" >> >>
              ELSE /\ Len(mouse) = 2 * Len(cp.items)
                   /\ \A i \in 1..Len(cp.items) :
                         /\ mouse[2 * i - 1] = << "move", cp.items[i][1], cp.items[i][2] >>
                         /\ mouse[2 * i] = << "click" >>
        /\ ~ Cycle => mouse = << >>

\* a cycle whose output is a sequence of two different green detections
C7_Witness ==
    /\ Cycle
    /\ detection.click_positions.shape = "list"
    /\ Len(detection.click_positions.items) = 2
    /\ detection.click_positions.items[1] # detection.click_positions.items[2]
    /\ Len(mouse) = 4

-----------------------------------------------------------------------------
(* C8: Statelessness between cycles.  A cycle on the frame (and region) of an  *)
(* earlier cycle gives the earlier cycle's output, also when cycles on other   *)
(* frames ran in between.                                                      *)
C8_Idempotent ==
    (memo.set /\ Cycle /\ frame = memo.frame) => detection.click_positions = memo.out

\* the recorded frame is processed again after a cycle on another frame
C8_Witness ==
    /\ memo.set
    /\ memo.other
    /\ Cycle
    /\ frame = memo.frame
    /\ Len(memo.out.items) > 0
    /\ detection.click_positions = memo.out

-----------------------------------------------------------------------------
(* C9: Run/pause gating.                                                       *)

\* the bot starts paused; a tick captures iff the flag is true after its poll;
\* clicks need the flag and an earlier or current 's'
GatingState ==
    /\ pc = "start" => ~ running
    /\ pc \in { "loop", "crashed" } => (captured # "none" <=> running)
    /\ pc = "exited" => captured = "none"
    /\ mouse # << >> => (running /\ started)

\* the flag turns true only with 's' held and false only with 'p' held, and a
\* tick with neither leaves it alone
FlagStep ==
    /\ (running' /\ ~ running) => keys'.s
    /\ (~ running' /\ running) => keys'.p
    /\ (~ keys'.s /\ ~ keys'.p) => running' = running

\* C9 as stated: the flag is false after every tick on which 'p' is held
FlagStepAsStated ==
    /\ FlagStep
    /\ keys'.p => ~ running'

C9_Original ==
    [] GatingState /\ [][FlagStepAsStated]_vars

\* C9 (amended): as stated, except that the flag becomes false on a tick where
\* 'p' is held and 's' is not; on a tick where 's' is held the flag is true,
\* also when 'p' is held with it.
FlagStepAmended ==
    /\ FlagStep
    /\ keys'.s => running'
    /\ (keys'.p /\ ~ keys'.s) => ~ running'

C9_RunPauseGating ==
    [] GatingState /\ [][FlagStepAmended]_vars

\* a started bot is paused by a tick with 'p' alone: no capture, no click
C9_Witness ==
    /\ pc = "loop"
    /\ started
    /\ keys.p
    /\ ~ keys.s
    /\ ~ running
    /\ captured = "none"
    /\ mouse = << >>

-----------------------------------------------------------------------------
(* C10: CTRL + C exits.                                                        *)

\* C10 as stated: a tick with ctrl+c held ends the program whatever other keys
\* are held, with no detection or click on that tick
C10_Original ==
    keys.ctrl_c => (pc = "exited" /\ captured = "none" /\ mouse = << >>)

\* C10 (amended): a tick with ctrl+c held and neither 's' nor 'p' held ends the
\* program, whatever the run flag, with no detection or click on that tick;
\* after the exit no tick runs.
C10_CtrlCExits ==
    [] ((keys.ctrl_c /\ ~ keys.s /\ ~ keys.p)
          => (pc = "exited" /\ captured = "none" /\ mouse = << >>))
    /\ [][pc # "exited"]_vars

\* ctrl+c alone ends the program while the bot is running
C10_Witness ==
    /\ keys.ctrl_c
    /\ ~ keys.s
    /\ ~ keys.p
    /\ running
    /\ pc = "exited"

-----------------------------------------------------------------------------
(* Denoise pass on pixels: vocabulary *)

MaskNames == {"pink", "green", "bomb"}

\* set_masks has run on the frame of the pixel view
Denoised == px_stage = "masks"

PixelGrid == Grid(px_frame.w, px_frame.h)

\* the 8 neighbours of p, whether inside the frame or not
Neighbours8(p) == Kernel(p) \ {p}

\* p is a foreground pixel of t with no foreground pixel among its 8 neighbours
Isolated(p, t) == p \in t /\ Neighbours8(p) \cap t = {}

\* the 3x3 dilation of the 3x3 erosion of t, stated pixel by pixel: p is kept
\* when some 3x3 window that contains p has all its in-frame pixels in t
Opened(t, grid) ==
    { p \in grid : \E q \in Kernel(p) \cap grid : (Kernel(q) \cap grid) \subseteq t }

\* C11 as stated: each final mask is the dilation of the erosion of the
\* thresholded mask, and every thresholded foreground pixel with no foreground
\* pixel among its 8 neighbours is background in the final mask.
C11_Original ==
    Denoised =>
        \A name \in MaskNames :
            /\ px_masks[name] = Opened(px_thresholded[name], PixelGrid)
            /\ \A p \in PixelGrid :
                   Isolated(p, px_thresholded[name]) => p \notin px_masks[name]

\* C11 (amended): each final mask is the dilation of the erosion of the
\* thresholded mask (erosion first, pixels outside the frame ignored), and a
\* thresholded foreground pixel with no foreground pixel among its 8 neighbours
\* is background in the final mask whenever at least one of those neighbours
\* lies inside the frame; in a frame of a single pixel it is kept.
C11_DenoiseRemovesNoise ==
    Denoised =>
        \A name \in MaskNames :
            /\ px_masks[name] = Opened(px_thresholded[name], PixelGrid)
            /\ \A p \in PixelGrid :
                   Isolated(p, px_thresholded[name]) =>
                       IF Neighbours8(p) \cap PixelGrid # {}
                       THEN p \notin px_masks[name]
                       ELSE p \in px_masks[name]

\* an isolated foreground pixel was removed while a solid blob of the same
\* mask survived the pass
C11_Witness ==
    /\ Denoised
    /\ \E name \in MaskNames :
          /\ px_masks[name] # {}
          /\ \E p \in PixelGrid :
                /\ Isolated(p, px_thresholded[name])
                /\ Neighbours8(p) \cap PixelGrid # {}
                /\ p \notin px_masks[name]

\* p is a one-pixel hole of t: a background pixel whose 8 neighbours all lie
\* inside the frame and are all foreground
Hole(p, t, grid) ==
    /\ p \in grid \ t
    /\ Neighbours8(p) \subseteq grid
    /\ Neighbours8(p) \subseteq t

\* C12 as stated: a one-pixel hole of a thresholded mask is foreground in the
\* final mask after the erosion-then-dilation pass.
C12_Original ==
    Denoised =>
        \A name \in MaskNames : \A p \in PixelGrid :
            Hole(p, px_thresholded[name], PixelGrid) => p \in px_masks[name]

\* C12 (amended): the erosion-then-dilation pass never turns a background
\* pixel of the thresholded mask into foreground, so a one-pixel hole of a
\* thresholded mask is still background in the final mask.
C12_DenoiseKeepsHoles ==
    Denoised =>
        \A name \in MaskNames :
            /\ px_masks[name] \subseteq px_thresholded[name]
            /\ \A p \in PixelGrid :
                   Hole(p, px_thresholded[name], PixelGrid) => p \notin px_masks[name]

\* a thresholded mask had a one-pixel hole and the pass has run on it
C12_Witness ==
    /\ Denoised
    /\ \E name \in MaskNames : \E p \in PixelGrid :
          /\ Hole(p, px_thresholded[name], PixelGrid)
          /\ p \notin px_masks[name]

-----------------------------------------------------------------------------
(* Green band boundary *)

\* C13: in a region with origin_y = 0 and t = floor(0.1 * height), a green
\* candidate with no hazard within 100 pixels is admitted exactly when
\* t <= center_y <= height - t: both boundary values are admitted, and
\* center_y = t - 1 and center_y = height - t + 1 are rejected.
C13_GreenBandInclusive ==
    (Cycle /\ coordinates.start_y = 0 /\ detection.pink_positions = << >>) =>
        LET t == coordinates.height \div 10
        IN  \A i \in 1..Len(frame.green) :
                LET b == frame.green[i]
                    cy == b[2] + b[4] \div 2
                    admitted == ScreenPoint(b) \in Range(detection.green_positions)
                IN  ~ HazardWithin(b) =>
                        /\ admitted <=> (t <= cy /\ cy <= coordinates.height - t)
                        /\ cy = t => admitted
                        /\ cy = coordinates.height - t => admitted
                        /\ cy = t - 1 => ~ admitted
                        /\ cy = coordinates.height - t + 1 => ~ admitted

\* a hazard-free green blob centred exactly at height - t, with t > 0, was
\* admitted and clicked
C13_Witness ==
    /\ Cycle /\ coordinates.start_y = 0 /\ detection.pink_positions = << >>
    /\ coordinates.height \div 10 > 0
    /\ \E i \in 1..Len(frame.green) :
          /\ ~ HazardWithin(frame.green[i])
          /\ frame.green[i][2] + frame.green[i][4] \div 2
                 = coordinates.height - coordinates.height \div 10
          /\ ScreenPoint(frame.green[i]) \in Range(detection.green_positions)
          /\ << "move", ScreenPoint(frame.green[i])[1], ScreenPoint(frame.green[i])[2] >>
                 \in Range(mouse)

====
